---------------------------- MODULE Spec2Model ----------------------------
(***************************************************************************)
(* nps (Nix-Package-Search): the search pipeline of src/src/main.rs        *)
(* (get_matches, sort_and_pad_matches), the cache refresh and main().      *)
(*                                                                         *)
(* Text is a sequence of characters (one-character strings).  "\n" is the  *)
(* line terminator, " " the field separator of the cache file.             *)
(***************************************************************************)
EXTENDS Integers, Sequences, FiniteSets, TLC

VARIABLES
    fn_pc,       \* position of the pure search pipeline
    fn_cli,      \* the Cli the pipeline functions are called with
    fn_content,  \* content of the cache file handed to get_matches
    fn_raw,      \* Result of get_matches
    fn_sorted,   \* Result of sort_and_pad_matches
    fn_colored,  \* Result of color_matches
    fn_out,      \* what print_matches wrote to stdout
    fn_stdout,   \* refresh(): the stdout handed to the normalisation
    fn_cache     \* refresh(): the cache_content made of it

VARIABLES
    pc,             \* per invocation of nps: the statement main() is at
    main_cli,       \* per invocation: its Cli
    exit,           \* per invocation: the ExitCode returned and why
    output,         \* refresh(): the Output of the listing command
    cache_content,  \* refresh(): the normalised text to be written
    written,        \* refresh(): bytes of cache_content written so far
    fd,             \* read_to_string: the inode of the opened cache file
    buf,            \* read_to_string: the bytes read so far
    main_content,   \* main(): the text fs::read_to_string returned
    cache_file_exists, \* main(): whether the cache file was there at the start
    folder,         \* the cache folder exists
    dir,            \* the cache folder: file name -> inode (0: no file)
    tmp,            \* the invocations whose temporary file exists
    disk,           \* inode -> bytes of the file
    before,         \* per invocation: the cache file when refresh() was called
    result,         \* per invocation: what refresh() returned
    installed,      \* per file name: the contents installed, oldest first
    launches,       \* per invocation: the calls of Command::output()
    warnings        \* per invocation: the lines logged with log::warn!

fnVars == <<fn_pc, fn_cli, fn_content, fn_raw, fn_sorted, fn_colored, fn_out,
           fn_stdout, fn_cache>>

procVars == <<pc, main_cli, exit, output, cache_content, written, fd, buf, main_content,
              cache_file_exists>>

fsVars == <<folder, dir, tmp, disk>>

historyVars == <<before, result, installed, launches, warnings>>

vars == <<fnVars, procVars, fsVars, historyVars>>

---------------------------------------------------------------------------
(* Bounds of the model.                                                    *)

\* Largest number of lines of a cache file handed to the search pipeline.
MaxLines == 3

\* Number of invocations of nps that run at the same time on one cache folder.
NumProcs == 2

\* Entries of the JSON mapping `nix search` prints.
MaxEntries == 3

---------------------------------------------------------------------------
(* Text helpers: the std::str operations the program uses.                 *)

NL == "\n"
SP == " "

\* char::to_lowercase on the characters of the model's alphabet.
LowerChar(c) ==
    IF c = "A" THEN "a" ELSE IF c = "B" THEN "b" ELSE c

\* str::to_lowercase.
to_lowercase(s) == [i \in 1..Len(s) |-> LowerChar(s[i])]

\* Number of bytes of the UTF-8 encoding of one character.
Utf8Bytes(c) == IF c = "é" THEN 2 ELSE 1

RECURSIVE len(_)
\* str::len: the length in BYTES of the UTF-8 encoding.
len(s) == IF s = <<>> THEN 0 ELSE Utf8Bytes(Head(s)) + len(Tail(s))

\* str::chars().count(): the number of characters.
chars_count(s) == Len(s)

\* Index of the first occurrence of character c in s, 0 when there is none.
IndexOf(s, c) ==
    IF \E i \in 1..Len(s) : s[i] = c
    THEN CHOOSE i \in 1..Len(s) : s[i] = c /\ \A j \in 1..(i - 1) : s[j] # c
    ELSE 0

\* str::starts_with.
starts_with(s, p) == Len(p) <= Len(s) /\ SubSeq(s, 1, Len(p)) = p

RECURSIVE lines(_)
\* str::lines: split at "\n"; a final line needs no terminator, and a
\* trailing terminator opens no further (empty) line.
lines(text) ==
    IF text = <<>> THEN <<>>
    ELSE LET i == IndexOf(text, NL) IN
         IF i = 0 THEN <<text>>
         ELSE <<SubSeq(text, 1, i - 1)>> \o lines(SubSeq(text, i + 1, Len(text)))

RECURSIVE splitn(_, _)
\* str::splitn(n, ' '): at most n pieces, cut at single spaces; the last
\* piece is the unsplit remainder.
splitn(n, s) ==
    LET i == IndexOf(s, SP) IN
    IF n <= 1 \/ i = 0 THEN <<s>>
    ELSE <<SubSeq(s, 1, i - 1)>> \o splitn(n - 1, SubSeq(s, i + 1, Len(s)))

RECURSIVE join(_, _)
\* [String]::join(sep).
join(ss, sep) ==
    IF ss = <<>> THEN <<>>
    ELSE IF Len(ss) = 1 THEN ss[1]
    ELSE ss[1] \o sep \o join(Tail(ss), sep)

\* n spaces.
Spaces(n) == [i \in 1..n |-> SP]

\* format!("{:width$}", s): left-justified, filled with spaces up to `width`
\* CHARACTERS; a longer s is not cut.
pad(s, width) ==
    IF chars_count(s) >= width THEN s ELSE s \o Spaces(width - chars_count(s))

\* Maximum of a sequence of naturals, 0 for the empty sequence
\* (iter().max().unwrap_or(&0)).
max_or_0(ns) ==
    IF ns = <<>> THEN 0
    ELSE CHOOSE m \in {ns[i] : i \in 1..Len(ns)} :
            \A i \in 1..Len(ns) : ns[i] <= m

\* Result values.
Ok(v) == [ok |-> TRUE, val |-> v]
Err(e) == [ok |-> FALSE, val |-> e]


---------------------------------------------------------------------------
(* The regular expressions of grep::regex::RegexMatcherBuilder, restricted *)
(* to the syntax the model's search terms use: a literal character matches *)
(* itself, "." matches any one character but the line terminator, and "("  *)
(* opens a group that nothing closes, which the builder rejects.           *)

\* RegexMatcherBuilder::build succeeds.
regex_builds(pattern) == \A k \in 1..Len(pattern) : pattern[k] # "("

\* One pattern element against one character of the haystack.
regex_char(pat, c, case_insensitive) ==
    IF pat = "." THEN c # NL
    ELSE IF case_insensitive THEN LowerChar(pat) = LowerChar(c)
    ELSE pat = c

\* The pattern matches the haystack at offset i.
regex_match_at(pattern, case_insensitive, hay, i) ==
    /\ i + Len(pattern) - 1 <= Len(hay)
    /\ \A k \in 1..Len(pattern) :
          regex_char(pattern[k], hay[i + k - 1], case_insensitive)

\* Matcher::is_match: the pattern matches somewhere in the haystack.
regex_is_match(pattern, case_insensitive, hay) ==
    \E i \in 1..(Len(hay) + 1) :
        regex_match_at(pattern, case_insensitive, hay, i)

---------------------------------------------------------------------------
(* get_matches: the lines of the cache the search term (a regular          *)
(* expression) matches, each printed with a terminating "\n".              *)

RECURSIVE print_lines(_)
\* grep::printer::Standard: every reported line followed by "\n".
print_lines(ls) ==
    IF ls = <<>> THEN <<>> ELSE Head(ls) \o <<NL>> \o print_lines(Tail(ls))

get_matches(cli, content) ==
    IF ~regex_builds(cli.search_term) THEN Err("Can't build regex")
    ELSE Ok(print_lines(SelectSeq(lines(content),
                LAMBDA l : regex_is_match(cli.search_term, cli.ignore_case, l))))

\* convert_case that never lowercases.
convert_case_verbatim(string, ignore_case) == string

\* convert_case that lowercases in case-sensitive searches too.
convert_case_always(string, ignore_case) == to_lowercase(string)

\* convert_case: lowercase for case-insensitive searches.
convert_case(string, ignore_case) ==
    IF ignore_case THEN to_lowercase(string) ELSE string

---------------------------------------------------------------------------
(* sort_and_pad_matches.                                                   *)

NIXOS == <<"n", "i", "x", "o", "s", ".">>
NIXPKGS == <<"n", "i", "x", "p", "k", "g", "s", ".">>

\* The fields taken between runs of spaces (split_whitespace): the empty
\* pieces of the split are skipped.
field_between_runs(line, k) ==
    LET split_line == SelectSeq(splitn(3, line), LAMBDA piece : piece # <<>>) IN
    IF k <= Len(split_line) THEN split_line[k] ELSE <<>>

\* A missing element shown as a placeholder in place of "".
field_or_placeholder(line, k) ==
    LET split_line == splitn(3, line) IN
    IF k <= Len(split_line) THEN split_line[k] ELSE <<"n", "u", "l", "l">>

\* split_line.get(k).unwrap_or(&"") of line.splitn(3, ' ').
field(line, k) ==
    LET split_line == splitn(3, line) IN
    IF k <= Len(split_line) THEN split_line[k] ELSE <<>>

name_of(line) == field(line, 1)
version_of(line) == field(line, 2)
description_of(line) == field(line, 3)

\* name_padding: the largest name length (str::len) of all matched lines.
name_padding(ls) == max_or_0([i \in 1..Len(ls) |-> len(name_of(ls[i]))])

\* version_padding: the largest version length of all matched lines.
version_padding(ls) == max_or_0([i \in 1..Len(ls) |-> len(version_of(ls[i]))])

\* assembled_line: the line rendered for the chosen columns.
\* Name-only mode rendered like the other modes' name column: padded, and
\* without the trailing space.
assembled_line_name_column(cli, line, npad, vpad) ==
    LET name == name_of(line)
        version == version_of(line)
        description == description_of(line)
    IN  CASE cli.columns = "all" ->
               pad(name, npad) \o <<SP, SP>> \o pad(version, vpad)
                   \o <<SP, SP>> \o description
          [] cli.columns = "version" -> pad(name, npad) \o <<SP, SP>> \o version
          [] cli.columns = "description" ->
               pad(name, npad) \o <<SP, SP>> \o description
          [] cli.columns = "none" -> pad(name, npad)

assembled_line(cli, line, npad, vpad) ==
    LET name == name_of(line)
        version == version_of(line)
        description == description_of(line)
    IN  CASE cli.columns = "all" ->
               pad(name, npad) \o <<SP, SP>> \o pad(version, vpad)
                   \o <<SP, SP>> \o description
          [] cli.columns = "version" -> pad(name, npad) \o <<SP, SP>> \o version
          [] cli.columns = "description" ->
               pad(name, npad) \o <<SP, SP>> \o description
          [] cli.columns = "none" -> name \o <<SP>>

\* is_exact that knows the "nixos." prefix only.
is_exact_nixos_only(cli, line) ==
    LET converted_search_term == convert_case(cli.search_term, cli.ignore_case)
        converted_name == convert_case(name_of(line), cli.ignore_case)
    IN  IF cli.experimental
        THEN converted_name = converted_search_term
        ELSE converted_name = NIXOS \o converted_search_term

\* The first condition of the if / else-if chain: the name is the term
\* (experimental), or the term behind one of the channel prefixes.
is_exact(cli, line) ==
    LET converted_search_term == convert_case(cli.search_term, cli.ignore_case)
        converted_name == convert_case(name_of(line), cli.ignore_case)
    IN  IF cli.experimental
        THEN converted_name = converted_search_term
        ELSE \/ converted_name = NIXOS \o converted_search_term
             \/ converted_name = NIXPKGS \o converted_search_term

\* is_direct_prefix that forgets the channel prefixes.
is_direct_prefix_unprefixed(cli, line) ==
    starts_with(convert_case(name_of(line), cli.ignore_case),
                convert_case(cli.search_term, cli.ignore_case))

\* The second condition of the chain: the name starts with the term.
is_direct_prefix(cli, line) ==
    LET converted_search_term == convert_case(cli.search_term, cli.ignore_case)
        converted_name == convert_case(name_of(line), cli.ignore_case)
    IN  IF cli.experimental
        THEN starts_with(converted_name, converted_search_term)
        ELSE \/ starts_with(converted_name, NIXOS \o converted_search_term)
             \/ starts_with(converted_name, NIXPKGS \o converted_search_term)

\* The if / else-if / else chain: which branch pushes the line.
pushed_exact(cli, line) == is_exact(cli, line)

\* The else-if branch without its else: a line that is exact is pushed here
\* as well.
pushed_direct_without_else(cli, line) == is_direct_prefix(cli, line)

pushed_direct(cli, line) == ~is_exact(cli, line) /\ is_direct_prefix(cli, line)

pushed_indirect(cli, line) ==
    ~is_exact(cli, line) /\ ~is_direct_prefix(cli, line)

pushed(cli, line, kind) ==
    CASE kind = "exact" -> pushed_exact(cli, line)
      [] kind = "direct" -> pushed_direct(cli, line)
      [] kind = "indirect" -> pushed_indirect(cli, line)

\* The positions of ls whose line the branch `kind` pushes, in order.
positions(cli, ls, kind) ==
    SelectSeq([i \in 1..Len(ls) |-> i], LAMBDA i : pushed(cli, ls[i], kind))

\* The widths taken from the lines of one bucket only.
measured_lines_of_bucket(ls, ps) == [k \in 1..Len(ps) |-> ls[ps[k]]]

\* The lines the two paddings are measured over: the first loop runs over
\* all of raw_matches.lines(), whatever bucket (positions ps) is rendered.
measured_lines(ls, ps) == ls

\* One bucket: for each pushed line its position in raw_matches (src, kept
\* to tell equal texts apart) and the rendered text (the String pushed).
bucket(cli, ls, kind) ==
    LET ps == positions(cli, ls, kind)
        npad == name_padding(measured_lines(ls, ps))
        vpad == version_padding(measured_lines(ls, ps))
    IN  [k \in 1..Len(ps) |->
            [src |-> ps[k], text |-> assembled_line(cli, ls[ps[k]], npad, vpad)]]

sort_and_pad_matches(cli, raw_matches) ==
    LET ls == lines(raw_matches) IN
    Ok([exact |-> bucket(cli, ls, "exact"),
        direct |-> bucket(cli, ls, "direct"),
        indirect |-> bucket(cli, ls, "indirect")])

---------------------------------------------------------------------------
(* color_matches: every rendered line of a bucket goes through the         *)
(* grep_searcher Searcher and the grep_printer Standard printer of the     *)
(* bucket.  An escape sequence of the terminal is one element of the text. *)

RESET == "ESC[0m"
BOLD == "ESC[1m"

\* match:fg of DEFAULTS.exact_color, direct_color and indirect_color
\* (Magenta, Blue, Green) as termcolor writes them.
fg(kind) ==
    CASE kind = "exact" -> "ESC[35m"
      [] kind = "direct" -> "ESC[34m"
      [] kind = "indirect" -> "ESC[32m"

\* termcolor Ansi::set_color of the ColorSpecs {fg, bold}: reset, bold, fg.
set_color(kind) == <<RESET, BOLD, fg(kind)>>

Markers == {RESET, BOLD, fg("exact"), fg("direct"), fg("indirect")}

\* Standard::write_colored_matches from offset i of the line: the matches
\* of the search term from left to right, none overlapping another, each
\* between set_color and reset; the other text as it is.
write_colored_matches(pattern, case_insensitive, line, i, kind) ==
    LET RECURSIVE w(_)
        w(j) ==
            IF j > Len(line) THEN <<>>
            ELSE IF regex_match_at(pattern, case_insensitive, line, j)
            THEN set_color(kind) \o SubSeq(line, j, j + Len(pattern) - 1)
                     \o <<RESET>> \o w(j + Len(pattern))
            ELSE <<line[j]>> \o w(j + 1)
    IN  w(i)

\* The sink of the printer for one line the searcher found: coloured when
\* the buffer supports colour, and always ended by the line terminator.
sink(cli, line, kind, color_choice) ==
    (IF color_choice = "always"
     THEN write_colored_matches(cli.search_term, cli.ignore_case, line, 1, kind)
     ELSE line) \o <<NL>>

\* A searcher driven by the search term: only lines it matches are sunk.
searched_lines_of_term(cli, ls) ==
    SelectSeq(ls, LAMBDA l : regex_is_match(cli.search_term, cli.ignore_case, l))

\* search_slice with matcher_all (".*"): every line of the slice is sunk.
searched_lines(cli, ls) == ls

reverse(seq) == [k \in 1..Len(seq) |-> seq[Len(seq) + 1 - k]]

\* The buckets kept in the order sort_and_pad_matches pushed them.
bucket_order_kept(cli, b) == b

\* main.rs 596-601: the buckets are reversed unless flip is set.
bucket_order(cli, b) == IF ~cli.flip THEN reverse(b) ELSE b

RECURSIVE concat(_)
\* The texts of a sequence one after the other.
concat(ss) == IF ss = <<>> THEN <<>> ELSE Head(ss) \o concat(Tail(ss))

\* One Buffer: the sunk lines of the bucket.
buffer(cli, b, kind, color_choice) ==
    LET padded_matches == [k \in 1..Len(b) |-> bucket_order(cli, b)[k].text]
        ls == searched_lines(cli, lines(join(padded_matches, <<NL>>)))
    IN  concat([k \in 1..Len(ls) |-> sink(cli, ls[k], kind, color_choice)])

\* Ok([exact_buffer, direct_buffer, indirect_buffer]).
color_matches(cli, sorted_padded_matches, color_choice) ==
    IF ~regex_builds(cli.search_term) THEN Err("Can't build regex")
    ELSE Ok(<<buffer(cli, sorted_padded_matches.exact, "exact", color_choice),
              buffer(cli, sorted_padded_matches.direct, "direct", color_choice),
              buffer(cli, sorted_padded_matches.indirect, "indirect",
                     color_choice)>>)

---------------------------------------------------------------------------
(* print_matches.                                                          *)

White == {SP, NL}

RECURSIVE trim_start(_)
trim_start(s) ==
    IF s # <<>> /\ Head(s) \in White THEN trim_start(Tail(s)) ELSE s

\* str::trim: the text without the white space at its two ends.
trim(s) == reverse(trim_start(reverse(trim_start(s))))

\* The blocks left in the order of the array of buffers.
block_order_kept(cli, out) == out

\* main.rs 647-649: out.reverse() unless flip is set.
block_order(cli, out) == IF ~cli.flip THEN reverse(out) ELSE out

\* main.rs 652-655.
separator(cli) == IF cli.separate THEN <<NL>> ELSE <<>>

\* What writeln! writes to stdout.
print_matches(cli, colored_matches) ==
    LET out == block_order(cli, SelectSeq(colored_matches, LAMBDA c : c # <<>>))
    IN  Ok(trim(join(out, separator(cli))) \o <<NL>>)

---------------------------------------------------------------------------
(* Inputs of the search pipeline.                                          *)

\* A cache line "name version description".
Rec(name, version, description) ==
    name \o <<SP>> \o version \o <<SP>> \o description

\* Lines of a cache written in experimental mode (names without prefix):
\* names equal to a term, differing in case, extending it, holding a ".",
\* a two-byte character, and lines with an empty or a missing field.
ExperimentalLines ==
    { Rec(<<"a">>, <<"1">>, <<"b">>),
      Rec(<<"A">>, <<"1", "0">>, <<"a">>),
      Rec(<<"a", "b">>, <<"1">>, <<"b">>),
      Rec(<<"a", ".">>, <<"1">>, <<"b">>),
      Rec(<<"é">>, <<"1">>, <<"a">>),
      <<"b", SP, SP, "a">>,
      <<SP, "a">>,
      <<"b", "a">> }

\* Lines of a cache written from the channels (names behind "nixos." or
\* "nixpkgs."), and a name no channel prefix precedes.
ChannelLines ==
    { Rec(NIXOS \o <<"a">>, <<"1">>, <<"b">>),
      Rec(NIXPKGS \o <<"a">>, <<"1">>, <<"b">>),
      Rec(NIXOS \o <<"a", "b">>, <<"1", "0">>, <<"b">>),
      Rec(NIXOS \o <<"A">>, <<"1">>, <<"a">>),
      Rec(NIXPKGS \o <<"a", ".">>, <<"1">>, <<"b">>),
      Rec(<<"a">>, <<"1">>, <<"b">>),
      Rec(<<"b">>, <<"1">>, NIXOS \o <<"a">>) }

LinePool(experimental) ==
    IF experimental THEN ExperimentalLines ELSE ChannelLines

\* The search terms: plain, upper case, and one that holds the regular
\* expression's wildcard.
TermPool == { <<"a">>, <<"A">>, <<"a", ".">> }

ColumnsChoice == {"all", "version", "description", "none"}

\* Sequences of at most n elements of S.
SeqUpTo(S, n) == UNION { [1..k -> S] : k \in 0..n }

\* A cache file of the given lines: parse_json_to_lines joins the lines
\* with "\n"; the channel listing ends every line with "\n".
CacheText(experimental, ls) ==
    IF experimental THEN join(ls, <<NL>>) ELSE print_lines(ls)

---------------------------------------------------------------------------
(* The search pipeline as main() runs it on the content of the cache:      *)
(* get_matches, then sort_and_pad_matches.                                 *)

NoResult == [ok |-> FALSE, val |-> "not run"]

InitFn ==
    /\ fn_pc = "get_matches"
    /\ \E term \in TermPool, ic \in BOOLEAN, exp \in BOOLEAN,
          col \in ColumnsChoice :
          /\ fn_cli = [search_term |-> term, ignore_case |-> ic,
                       experimental |-> exp, columns |-> col]
          /\ \E ls \in SeqUpTo(LinePool(exp), MaxLines) :
                fn_content = CacheText(exp, ls)
    /\ fn_raw = NoResult
    /\ fn_sorted = NoResult
    /\ fn_colored = NoResult
    /\ fn_out = NoResult
    /\ fn_stdout = NoResult
    /\ fn_cache = NoResult
    /\ pc = <<>> /\ main_cli = <<>> /\ exit = <<>> /\ output = <<>>
    /\ cache_content = <<>> /\ written = <<>> /\ fd = <<>> /\ buf = <<>>
    /\ main_content = <<>> /\ folder = FALSE /\ dir = <<>> /\ tmp = {}
    /\ disk = <<>> /\ before = <<>> /\ result = <<>> /\ installed = <<>>
    /\ cache_file_exists = <<>> /\ launches = <<>> /\ warnings = <<>>

\* let raw_matches = get_matches(&cli, &content); main stops on Err and on
\* an empty result.
FnGetMatches ==
    /\ fn_pc = "get_matches"
    /\ fn_raw' = get_matches(fn_cli, fn_content)
    /\ fn_pc' = IF fn_raw'.ok /\ fn_raw'.val # <<>>
                THEN "sort_and_pad_matches" ELSE "exit"
    /\ UNCHANGED <<fn_cli, fn_content, fn_sorted, fn_colored, fn_out>>
    /\ UNCHANGED <<fn_stdout, fn_cache>>
    /\ UNCHANGED <<procVars, fsVars, historyVars>>

\* let sorted_padded_matches = sort_and_pad_matches(&cli, raw_matches).
FnSortAndPad ==
    /\ fn_pc = "sort_and_pad_matches"
    /\ fn_sorted' = sort_and_pad_matches(fn_cli, fn_raw.val)
    /\ fn_pc' = "color_matches"
    /\ UNCHANGED <<fn_cli, fn_content, fn_raw, fn_colored, fn_out>>
    /\ UNCHANGED <<fn_stdout, fn_cache>>
    /\ UNCHANGED <<procVars, fsVars, historyVars>>

NextFn == FnGetMatches \/ FnSortAndPad

SpecSearch == InitFn /\ [][NextFn]_vars

---------------------------------------------------------------------------
(* The whole pipeline of main() behind the read of the cache: get_matches, *)
(* sort_and_pad_matches, color_matches, print_matches.                     *)

\* Lines of a cache for the printed output: names that equal the term,
\* begin with it and do not hold it, a description with two occurrences
\* side by side, and a line without a name.
PrintLines ==
    { Rec(<<"a">>, <<"1">>, <<"b">>),
      Rec(<<"A">>, <<"1", "0">>, <<"a">>),
      Rec(<<"a", "b">>, <<"1">>, <<"b">>),
      Rec(<<"b">>, <<"1">>, <<"a", "a">>),
      Rec(<<"b", "b">>, <<"2">>, <<"a">>),
      <<SP, "a">> }

PrintTerms == { <<"a">>, <<"a", ".">> }

PrintColumns == {"all", "none"}

\* termcolor::ColorChoice as main() resolves it (main.rs 815-834); Auto
\* ends as one of the two for the BufferWriter.
ColorChoices == {"always", "never"}

InitPrint ==
    /\ fn_pc = "get_matches"
    /\ \E term \in PrintTerms, ic \in BOOLEAN, col \in PrintColumns,
          fl \in BOOLEAN, sep \in BOOLEAN, cc \in ColorChoices :
          fn_cli = [search_term |-> term, ignore_case |-> ic,
                    experimental |-> TRUE, columns |-> col, flip |-> fl,
                    separate |-> sep, color_choice |-> cc]
    /\ \E ls \in SeqUpTo(PrintLines, MaxLines) :
          fn_content = CacheText(TRUE, ls)
    /\ fn_raw = NoResult
    /\ fn_sorted = NoResult
    /\ fn_colored = NoResult
    /\ fn_out = NoResult
    /\ fn_stdout = NoResult
    /\ fn_cache = NoResult
    /\ pc = <<>> /\ main_cli = <<>> /\ exit = <<>> /\ output = <<>>
    /\ cache_content = <<>> /\ written = <<>> /\ fd = <<>> /\ buf = <<>>
    /\ main_content = <<>> /\ folder = FALSE /\ dir = <<>> /\ tmp = {}
    /\ disk = <<>> /\ before = <<>> /\ result = <<>> /\ installed = <<>>
    /\ cache_file_exists = <<>> /\ launches = <<>> /\ warnings = <<>>

\* let colored_matches = color_matches(&cli, sorted_padded_matches,
\* color_choice).
FnColorMatches ==
    /\ fn_pc = "color_matches"
    /\ fn_colored' = color_matches(fn_cli, fn_sorted.val, fn_cli.color_choice)
    /\ fn_pc' = IF fn_colored'.ok THEN "print_matches" ELSE "exit"
    /\ UNCHANGED <<fn_cli, fn_content, fn_raw, fn_sorted, fn_out>>
    /\ UNCHANGED <<fn_stdout, fn_cache>>
    /\ UNCHANGED <<procVars, fsVars, historyVars>>

\* print_matches(&cli, colored_matches).
FnPrintMatches ==
    /\ fn_pc = "print_matches"
    /\ fn_out' = print_matches(fn_cli, fn_colored.val)
    /\ fn_pc' = "exit"
    /\ UNCHANGED <<fn_cli, fn_content, fn_raw, fn_sorted, fn_colored>>
    /\ UNCHANGED <<fn_stdout, fn_cache>>
    /\ UNCHANGED <<procVars, fsVars, historyVars>>

NextPrint == FnGetMatches \/ FnSortAndPad \/ FnColorMatches \/ FnPrintMatches

SpecPrint == InitPrint /\ [][NextPrint]_vars

---------------------------------------------------------------------------
(* Cache Builder: the two normalisations of refresh().                     *)

\* The model's characters in the order of their UTF-8 encodings.
Alphabet ==
    <<NL, SP, "(", ".", "1", "2", "A", "B", "a", "b", "g", "i", "k", "l",
      "n", "o", "p", "s", "x", "é">>

\* Rank of a character in the byte order.
Code(c) == CHOOSE k \in 1..Len(Alphabet) : Alphabet[k] = c

RECURSIVE str_le(_, _)
\* s <= t in the order of String (lexicographic by bytes).
str_le(s, t) ==
    IF s = <<>> THEN TRUE
    ELSE IF t = <<>> THEN FALSE
    ELSE IF Head(s) # Head(t) THEN Code(Head(s)) < Code(Head(t))
    ELSE str_le(Tail(s), Tail(t))

RECURSIVE insert_sorted(_, _)
insert_sorted(sorted, x) ==
    IF sorted = <<>> THEN <<x>>
    ELSE IF str_le(x, Head(sorted)) THEN <<x>> \o sorted
    ELSE <<Head(sorted)>> \o insert_sorted(Tail(sorted), x)

RECURSIVE sort(_)
\* Vec<String>::sort.
sort(ss) == IF ss = <<>> THEN <<>> ELSE insert_sorted(sort(Tail(ss)), Head(ss))

RECURSIVE splitn_dot(_, _)
\* str::splitn(n, '.').
splitn_dot(n, s) ==
    LET i == IndexOf(s, ".") IN
    IF n <= 1 \/ i = 0 THEN <<s>>
    ELSE <<SubSeq(s, 1, i - 1)>> \o splitn_dot(n - 1, SubSeq(s, i + 1, Len(s)))

\* A decoder that leaves out the entries whose key has no third segment.
parse_json_to_lines_lenient(raw_output) ==
    IF ~raw_output.valid THEN Err("Can't parse JSON")
    ELSE LET parsed == SelectSeq(raw_output.entries,
                                 LAMBDA e : Len(splitn_dot(3, e.key)) = 3)
         IN  Ok(join(sort([k \in 1..Len(parsed) |->
                        splitn_dot(3, parsed[k].key)[3] \o <<SP>>
                            \o parsed[k].version
                            \o <<SP>> \o parsed[k].description]), <<NL>>))

\* parse_json_to_lines.  The decoded JSON is a record: valid (serde_json
\* could decode the text into HashMap<String, Package>) and entries, the
\* (key, Package) pairs in the order the HashMap iterates them.
parse_json_to_lines(raw_output) ==
    IF ~raw_output.valid THEN Err("Can't parse JSON")
    ELSE LET parsed == raw_output.entries
             name_vec(k) == splitn_dot(3, parsed[k].key)
         IN  IF \E k \in 1..Len(parsed) : Len(name_vec(k)) < 3
             THEN Err("Can't get package name from JSON.")
             ELSE Ok(join(sort([k \in 1..Len(parsed) |->
                        name_vec(k)[3] \o <<SP>> \o parsed[k].version
                            \o <<SP>> \o parsed[k].description]), <<NL>>))

\* Last index of the longest run, starting at s, of characters that are
\* spaces (space = TRUE) or are not (space = FALSE); s - 1 for no run.
run_end(text, s, space) ==
    LET stops == {k \in s..Len(text) : (text[k] = SP) # space} IN
    IF stops = {} THEN Len(text)
    ELSE (CHOOSE k \in stops : \A j \in stops : k <= j) - 1

\* Last index of the line that holds position s ("." matches no "\n").
line_end(text, s) ==
    LET stops == {k \in s..Len(text) : text[k] = NL} IN
    IF stops = {} THEN Len(text)
    ELSE (CHOOSE k \in stops : \A j \in stops : k <= j) - 1

\* The match of ^([^ ]+) +([^ ]+) +(.*)$ (multi-line) that starts at s, as
\* the bounds of its three groups, or none.  [^ ] matches "\n" too.
normalize_match(text, s) ==
    LET e1 == run_end(text, s, FALSE)
        s2 == run_end(text, e1 + 1, TRUE) + 1
        e2 == run_end(text, s2, FALSE)
        s3 == run_end(text, e2 + 1, TRUE) + 1
        e3 == line_end(text, s3)
    IN  IF /\ (s = 1 \/ text[s - 1] = NL)
           /\ e1 >= s /\ s2 > e1 + 1 /\ e2 >= s2 /\ s3 > e2 + 1
        THEN [found |-> TRUE, g1 |-> SubSeq(text, s, e1),
              g2 |-> SubSeq(text, s2, e2), g3 |-> SubSeq(text, s3, e3),
              end |-> e3]
        ELSE [found |-> FALSE]

RECURSIVE normalize_from(_, _)
\* Regex::replace_all from position pos on: the leftmost match is replaced
\* by "$1 $2 $3", the text before it is copied, the search goes on behind.
normalize_from(text, pos) ==
    LET starts == {s \in pos..Len(text) : normalize_match(text, s).found} IN
    IF starts = {} THEN SubSeq(text, pos, Len(text))
    ELSE LET s == CHOOSE k \in starts : \A j \in starts : k <= j
             m == normalize_match(text, s)
         IN  SubSeq(text, pos, s - 1) \o m.g1 \o <<SP>> \o m.g2 \o <<SP>> \o m.g3
                 \o normalize_from(text, m.end + 1)

\* The plain-text normalisation of refresh (main.rs 748-752).
normalize(stdout) == normalize_from(stdout, 1)

---------------------------------------------------------------------------
(* The file system and the listing command.                                *)

\* DEFAULTS.cache_file and DEFAULTS.experimental_cache_file.
cache_file == "nps.cache"
experimental_cache_file == "nps.experimental.cache"
Paths == {cache_file, experimental_cache_file}

\* One cache file for both modes.
file_path_shared(c) == cache_file

\* file_path: the cache file of the invocation's mode.
file_path(c) ==
    IF c.experimental THEN experimental_cache_file ELSE cache_file

\* refresh() fails below this many bytes of stdout.
MinCacheSize == 10000

NoFile == 0
Null == <<"null">>

\* Inodes of the cache files that exist before any invocation starts.
OldInode(path) == IF path = cache_file THEN -1 ELSE -2

\* Content of the cache files that exist before any invocation starts.
OldContent(path) ==
    IF path = cache_file
    THEN print_lines(<<Rec(NIXOS \o <<"a">>, <<"1">>, <<"a">>)>>)
    ELSE join(<<Rec(<<"a">>, <<"1">>, <<"a">>), Rec(<<"b">>, <<"1">>, <<"b">>)>>,
              <<NL>>)

\* The bytes of the file a name of the cache folder leads to.
FileContent(path) == IF dir[path] = NoFile THEN Null ELSE disk[dir[path]]

\* bytes data written into a file at offset off.
WriteAt(file, off, data) ==
    [k \in 1..(IF Len(file) > off + Len(data) THEN Len(file)
               ELSE off + Len(data)) |->
        IF k > off /\ k <= off + Len(data) THEN data[k - off] ELSE file[k]]

\* stdout of `nix-env -qaP --description`: columns apart by runs of spaces.
TextOutputs ==
    { <<"a", SP, SP, "1", SP, "b", NL>>,
      <<"b", SP, "2", SP, SP, "a", NL>> }

\* stdout of `nix search nixpkgs ^ --json` as serde_json decodes it:
\* a mapping, text that is no JSON, and a mapping with a two-segment key.
JsonOutputs ==
    { [valid |-> TRUE,
       entries |-> <<[key |-> <<"l", ".", "x", ".", "b">>,
                      version |-> <<"1">>, description |-> <<"a">>],
                     [key |-> <<"l", ".", "x", ".", "a">>,
                      version |-> <<"1">>, description |-> <<"b">>]>>],
      [valid |-> FALSE, entries |-> <<>>],
      [valid |-> TRUE,
       entries |-> <<[key |-> <<"l", ".", "x">>,
                      version |-> <<"1">>, description |-> <<"a">>]>>] }

Evaluating == <<"e", "v", "a", "l", "u", "a", "t", "i", "n", "g">>

\* stderr of the listing command: nothing, or the standard logging and a
\* line of another kind.
StderrTexts ==
    { <<>>,
      Evaluating \o <<SP, "x", NL>> \o <<"e", "r", "r", "o", "r", NL>> }

\* main.rs 722-736: the lines of stderr logged as warnings.
stderr_warnings(stderr) ==
    SelectSeq(lines(stderr), LAMBDA line : ~starts_with(line, Evaluating))

\* What Command::output() can return for a command that was launched: the
\* exit status (0 or 1), stdout and stderr (valid UTF-8 or not) and the
\* length of stdout in bytes.  The model keeps the first lines of stdout
\* and its length apart.
CommandOutputs(experimental) ==
    LET bodies == IF experimental THEN JsonOutputs ELSE TextOutputs IN
    { [status |-> s, stdout_utf8 |-> TRUE, stderr_utf8 |-> TRUE,
       stdout_len |-> n, stdout |-> b, stderr |-> e] :
          s \in {0, 1}, n \in {MinCacheSize - 1, MinCacheSize}, b \in bodies,
          e \in StderrTexts }
    \cup
    { [status |-> s, stdout_utf8 |-> u, stderr_utf8 |-> ~u,
       stdout_len |-> MinCacheSize, stdout |-> b, stderr |-> <<>>] :
          s \in {0, 1}, u \in BOOLEAN, b \in bodies }

---------------------------------------------------------------------------
(* main() and refresh(), one step per access to the file system.           *)

Procs == DOMAIN pc

Running == [code |-> "none", why |-> "running"]

\* main() returns ExitCode `code`; its locals are dropped.
Exit(p, code, why) ==
    /\ pc' = [pc EXCEPT ![p] = "exit"]
    /\ exit' = [exit EXCEPT ![p] = [code |-> code, why |-> why]]
    /\ main_content' = [main_content EXCEPT ![p] = Null]

\* refresh() returns Err: its locals are dropped, and main() logs
\* "Can't refresh cache" and returns FAILURE (main.rs 863-866).
RefreshErr(p, reason) ==
    /\ result' = [result EXCEPT ![p] = reason]
    /\ output' = [output EXCEPT ![p] = Null]
    /\ cache_content' = [cache_content EXCEPT ![p] = Null]
    /\ written' = [written EXCEPT ![p] = 0]
    /\ Exit(p, "FAILURE", "Can't refresh cache")

\* An invocation that refreshes every time.
needs_refresh_always(c, exists) == TRUE

\* An invocation that refreshes only when asked to.
needs_refresh_when_asked(c, exists) == c.refresh

\* main.rs 855: `if cli.refresh || !cache_file_exists`.
needs_refresh(c, exists) == c.refresh \/ ~exists

\* main.rs 849-857: refresh when asked to or when the cache file is missing.
MainStart(p) ==
    /\ pc[p] = "main"
    /\ LET exists == dir[file_path(main_cli[p])] # NoFile IN
       /\ cache_file_exists' = [cache_file_exists EXCEPT ![p] = exists]
       /\ IF needs_refresh(main_cli[p], exists)
          THEN /\ pc' = [pc EXCEPT ![p] = "refresh_command"]
               /\ before' = [before EXCEPT ![p] = FileContent(file_path(main_cli[p]))]
          ELSE /\ pc' = [pc EXCEPT ![p] = "read_open"]
               /\ UNCHANGED before
    /\ UNCHANGED <<main_cli, exit, output, cache_content, written, fd, buf, main_content>>
    /\ UNCHANGED <<fnVars, fsVars, result, installed, launches, warnings>>

\* main.rs 695-708: Command::output(): the command cannot be launched, or
\* it runs to its end and its output is captured.
RefreshCommand(p) ==
    /\ pc[p] = "refresh_command"
    /\ \/ /\ RefreshErr(p, "command failed")
          /\ UNCHANGED <<main_cli, cache_file_exists, fd, buf>>
       \/ \E o \in CommandOutputs(main_cli[p].experimental) :
             /\ output' = [output EXCEPT ![p] = o]
             /\ pc' = [pc EXCEPT ![p] = "refresh_check"]
             /\ UNCHANGED <<main_cli, cache_file_exists, exit, cache_content,
                            written, fd, buf, main_content, result>>
    /\ launches' = [launches EXCEPT ![p] = @ + 1]
    /\ UNCHANGED <<fnVars, fsVars, before, installed, warnings>>

\* main.rs 744-754: cache_content.
normalized_output(experimental, stdout) ==
    IF experimental THEN parse_json_to_lines(stdout)
    ELSE Ok(normalize(stdout))

\* A refresh that gives up when the command wrote warnings to stderr.
stderr_is_fatal_on_warnings(stderr) == stderr_warnings(stderr) # <<>>

\* main.rs 722-736: what stderr holds is logged and nothing else.
stderr_is_fatal(stderr) == FALSE

\* main.rs 712-754: decode stdout and stderr, log the warnings of stderr,
\* reject a stdout that is too small, normalise it.  output.status is not
\* read.
RefreshCheck(p) ==
    /\ pc[p] = "refresh_check"
    /\ LET o == output[p] IN
       IF ~o.stdout_utf8
       THEN /\ RefreshErr(p, "Can't convert stdout to UTF8")
            /\ UNCHANGED warnings
       ELSE IF ~o.stderr_utf8
       THEN /\ RefreshErr(p, "Can't convert stderr to UTF8")
            /\ UNCHANGED warnings
       ELSE /\ warnings' = [warnings EXCEPT ![p] = stderr_warnings(o.stderr)]
            /\ IF stderr_is_fatal(o.stderr)
               THEN RefreshErr(p, "stderr")
               ELSE IF o.stdout_len < MinCacheSize
               THEN RefreshErr(p, "Cache seems too small")
               ELSE LET c == normalized_output(main_cli[p].experimental, o.stdout) IN
                    IF ~c.ok
                    THEN RefreshErr(p, "Can't parse JSON")
                    ELSE /\ cache_content' = [cache_content EXCEPT ![p] = c.val]
                         /\ pc' = [pc EXCEPT ![p] = "refresh_create_dir"]
                         /\ UNCHANGED <<exit, output, written, main_content, result>>
    /\ UNCHANGED <<main_cli, cache_file_exists, fd, buf>>
    /\ UNCHANGED <<fnVars, fsVars, before, installed, launches>>

\* main.rs 758: fs::create_dir_all(cache_folder).
RefreshCreateDir(p) ==
    /\ pc[p] = "refresh_create_dir"
    /\ \/ /\ folder' = TRUE
          /\ pc' = [pc EXCEPT ![p] = "refresh_tempfile"]
          /\ UNCHANGED <<exit, output, cache_content, written, main_content, result>>
       \/ /\ ~folder
          /\ RefreshErr(p, "Can't create folder")
          /\ UNCHANGED folder
    /\ UNCHANGED <<main_cli, cache_file_exists, fd, buf>>
    /\ UNCHANGED <<fnVars, dir, tmp, disk, before, installed, launches, warnings>>

\* The destination itself opened for writing (and truncated) in place of a
\* temporary file.
tempfile_in_place(p) ==
    IF dir[file_path(main_cli[p])] # NoFile THEN dir[file_path(main_cli[p])] ELSE p

\* The inode of the invocation's NamedTempFile: a file of its own.
tempfile(p) == p

\* main.rs 765-766: NamedTempFile::new_in(cache_folder): a new, empty file
\* under a name no other invocation uses.
RefreshTempfile(p) ==
    /\ pc[p] = "refresh_tempfile"
    /\ \/ /\ folder
          /\ tmp' = tmp \cup {p}
          /\ disk' = [disk EXCEPT ![tempfile(p)] = <<>>]
          /\ pc' = [pc EXCEPT ![p] = "refresh_write"]
          /\ UNCHANGED <<exit, output, cache_content, written, main_content, result>>
       \/ /\ RefreshErr(p, "Can't create temp file")
          /\ UNCHANGED <<tmp, disk>>
    /\ UNCHANGED <<main_cli, cache_file_exists, fd, buf>>
    /\ UNCHANGED <<fnVars, folder, dir, before, installed, launches, warnings>>

\* main.rs 769-770: write!(&tempfile, "{}", cache_content): write_all loops
\* over write(2), which takes any part of what is left or fails; dropping
\* the NamedTempFile on the error path removes the file.
RefreshWrite(p) ==
    /\ pc[p] = "refresh_write"
    /\ LET left == Len(cache_content[p]) - written[p] IN
       \/ /\ left = 0
          /\ pc' = [pc EXCEPT ![p] = "refresh_persist"]
          /\ UNCHANGED <<exit, output, cache_content, written, main_content, result,
                         tmp, disk>>
       \/ \E k \in 1..left :
             /\ disk' = [disk EXCEPT ![tempfile(p)] =
                           WriteAt(@, written[p],
                                   SubSeq(cache_content[p], written[p] + 1,
                                          written[p] + k))]
             /\ written' = [written EXCEPT ![p] = @ + k]
             /\ UNCHANGED <<pc, exit, output, cache_content, main_content, result, tmp>>
       \/ /\ left > 0
          /\ tmp' = tmp \ {p}
          /\ RefreshErr(p, "Can't write to temp file")
          /\ UNCHANGED disk
    /\ UNCHANGED <<main_cli, cache_file_exists, fd, buf>>
    /\ UNCHANGED <<fnVars, folder, dir, before, installed, launches, warnings>>

\* main.rs 773-784 and 858-862: persist renames the temporary file over
\* the destination in one step, or fails and the temporary file is removed.
\* After Ok(()) main() returns SUCCESS if the refresh was asked for, and
\* goes on to read the cache otherwise.
RefreshPersist(p) ==
    /\ pc[p] = "refresh_persist"
    /\ \/ /\ dir' = [dir EXCEPT ![file_path(main_cli[p])] = tempfile(p)]
          /\ tmp' = tmp \ {p}
          /\ installed' = [installed EXCEPT ![file_path(main_cli[p])] =
                              Append(@, cache_content[p])]
          /\ result' = [result EXCEPT ![p] = "Ok"]
          /\ output' = [output EXCEPT ![p] = Null]
          /\ cache_content' = [cache_content EXCEPT ![p] = Null]
          /\ written' = [written EXCEPT ![p] = 0]
          /\ IF main_cli[p].refresh
             THEN Exit(p, "SUCCESS", "refreshed")
             ELSE /\ pc' = [pc EXCEPT ![p] = "read_open"]
                  /\ UNCHANGED <<exit, main_content>>
       \/ /\ tmp' = tmp \ {p}
          /\ RefreshErr(p, "Can't persist temp file")
          /\ UNCHANGED <<dir, installed>>
    /\ UNCHANGED <<main_cli, cache_file_exists, fd, buf>>
    /\ UNCHANGED <<fnVars, folder, disk, before, launches, warnings>>

\* main.rs 870-876, fs::read_to_string: open the file the name leads to.
MainOpen(p) ==
    /\ pc[p] = "read_open"
    /\ \/ /\ dir[file_path(main_cli[p])] # NoFile
          /\ fd' = [fd EXCEPT ![p] = dir[file_path(main_cli[p])]]
          /\ pc' = [pc EXCEPT ![p] = "read"]
          /\ UNCHANGED <<exit, main_content>>
       \/ /\ Exit(p, "FAILURE", "Can't open file")
          /\ UNCHANGED fd
    /\ UNCHANGED <<main_cli, cache_file_exists, output, cache_content, written, buf>>
    /\ UNCHANGED <<fnVars, fsVars, historyVars>>

\* fs::read_to_string: read(2) returns some of the bytes behind the
\* offset, and nothing at the end of the file.
MainRead(p) ==
    /\ pc[p] = "read"
    /\ LET file == disk[fd[p]]
           left == Len(file) - Len(buf[p])
       IN  \/ \E k \in 1..left :
                 /\ buf' = [buf EXCEPT ![p] =
                              @ \o SubSeq(file, Len(@) + 1, Len(@) + k)]
                 /\ UNCHANGED <<pc, fd, main_content>>
           \/ /\ left <= 0
              /\ main_content' = [main_content EXCEPT ![p] = buf[p]]
              /\ buf' = [buf EXCEPT ![p] = <<>>]
              /\ fd' = [fd EXCEPT ![p] = NoFile]
              /\ pc' = [pc EXCEPT ![p] = "get_matches"]
    /\ UNCHANGED <<main_cli, cache_file_exists, exit, output, cache_content, written>>
    /\ UNCHANGED <<fnVars, fsVars, historyVars>>

\* The exit code with success for a search without matches.
exit_on_no_matches_success == "SUCCESS"

\* main.rs 885-887: the exit code when get_matches returns no line.
exit_on_no_matches == "FAILURE"

\* main.rs 878-887.
MainGetMatches(p) ==
    /\ pc[p] = "get_matches"
    /\ LET raw_matches == get_matches(main_cli[p], main_content[p]) IN
       IF ~raw_matches.ok THEN Exit(p, "FAILURE", "Can't get matches")
       ELSE IF raw_matches.val = <<>>
       THEN Exit(p, exit_on_no_matches, "no matches")
       ELSE /\ pc' = [pc EXCEPT ![p] = "print_matches"]
            /\ UNCHANGED <<exit, main_content>>
    /\ UNCHANGED <<main_cli, cache_file_exists, output, cache_content, written, fd, buf>>
    /\ UNCHANGED <<fnVars, fsVars, historyVars>>

\* main.rs 889-910: sort_and_pad_matches and color_matches return Ok for
\* the matches of a term that built a regular expression; print_matches
\* fails when stdout cannot be written.
MainPrint(p) ==
    /\ pc[p] = "print_matches"
    /\ sort_and_pad_matches(main_cli[p], get_matches(main_cli[p], main_content[p]).val).ok
    /\ \/ Exit(p, "SUCCESS", "printed")
       \/ Exit(p, "FAILURE", "Can't print matches")
    /\ UNCHANGED <<main_cli, cache_file_exists, output, cache_content, written, fd, buf>>
    /\ UNCHANGED <<fnVars, fsVars, historyVars>>

Next ==
    \/ \E p \in Procs : MainStart(p)
    \/ \E p \in Procs : RefreshCommand(p)
    \/ \E p \in Procs : RefreshCheck(p)
    \/ \E p \in Procs : RefreshCreateDir(p)
    \/ \E p \in Procs : RefreshTempfile(p)
    \/ \E p \in Procs : RefreshWrite(p)
    \/ \E p \in Procs : RefreshPersist(p)
    \/ \E p \in Procs : MainOpen(p)
    \/ \E p \in Procs : MainRead(p)
    \/ \E p \in Procs : MainGetMatches(p)
    \/ \E p \in Procs : MainPrint(p)

\* The pure pipeline is not part of these specifications.
FnIdle ==
    /\ fn_pc = "idle"
    /\ fn_cli = Null
    /\ fn_content = Null
    /\ fn_raw = NoResult
    /\ fn_sorted = NoResult
    /\ fn_colored = NoResult
    /\ fn_out = NoResult
    /\ fn_stdout = NoResult
    /\ fn_cache = NoResult

\* The search terms of main(): one that matches lines of the caches, one
\* that matches none, and one that is no regular expression.
MainTerms == { <<"a">>, <<"2">>, <<"(">> }

\* The Cli of one invocation: "-r" with or without a term, or a search.
CliPool ==
    { [refresh |-> TRUE, experimental |-> e, search_term |-> t,
       ignore_case |-> TRUE, columns |-> "all"] :
          e \in BOOLEAN, t \in {Null, <<"a">>} }
    \cup
    { [refresh |-> FALSE, experimental |-> e, search_term |-> t,
       ignore_case |-> i, columns |-> "all"] :
          e \in BOOLEAN, t \in MainTerms, i \in BOOLEAN }

\* The Cli of invocations that run at the same time.
ConcurrentCliPool ==
    { [refresh |-> r, experimental |-> FALSE, search_term |-> <<"a">>,
       ignore_case |-> TRUE, columns |-> "all"] : r \in BOOLEAN }

\* The state before the invocations P start: the cache folder with any of
\* its two cache files, or no folder.
InitMain(P, clis) ==
    /\ FnIdle
    /\ pc = [p \in P |-> "main"]
    /\ main_cli \in [P -> clis]
    /\ exit = [p \in P |-> Running]
    /\ output = [p \in P |-> Null]
    /\ cache_content = [p \in P |-> Null]
    /\ written = [p \in P |-> 0]
    /\ fd = [p \in P |-> NoFile]
    /\ buf = [p \in P |-> <<>>]
    /\ main_content = [p \in P |-> Null]
    /\ folder \in BOOLEAN
    /\ dir \in [Paths -> {NoFile, -1, -2}]
    /\ \A path \in Paths :
          /\ dir[path] \in {NoFile, OldInode(path)}
          /\ ~folder => dir[path] = NoFile
    /\ tmp = {}
    /\ disk = [i \in {OldInode(path) : path \in Paths} \cup P |->
                 IF i \in P THEN <<>>
                 ELSE OldContent(CHOOSE path \in Paths : OldInode(path) = i)]
    /\ cache_file_exists = [p \in P |-> FALSE]
    /\ launches = [p \in P |-> 0]
    /\ warnings = [p \in P |-> <<>>]
    /\ before = [p \in P |-> Null]
    /\ result = [p \in P |-> "none"]
    /\ installed = [path \in Paths |->
                      IF dir[path] = NoFile THEN <<>>
                      ELSE <<OldContent(path)>>]

\* One invocation of nps.
Init == InitMain({1}, CliPool)

Spec == Init /\ [][Next]_vars

\* NumProcs invocations on one cache folder at the same time.
InitRefresh == InitMain(1..NumProcs, ConcurrentCliPool)

SpecRefresh == InitRefresh /\ [][Next]_vars

---------------------------------------------------------------------------
(* The parser of sort_and_pad_matches on lines of every shape.             *)

\* Cache lines that hold the term "a": a description of two words, two
\* spaces behind the name, a leading space, two spaces behind the version,
\* one field, two fields, a description with two spaces inside.
ParseLines ==
    { <<"a", SP, "1", SP, "b", SP, "a">>,
      <<"a", SP, SP, "1", SP, "b">>,
      <<SP, "a", SP, "1", SP, "b">>,
      <<"a", SP, "1", SP, SP, "b">>,
      <<"a">>,
      <<"a", "b", SP, "1", "0">>,
      <<"b", SP, "1", SP, "a", SP, SP, "b">> }

InitParse ==
    /\ fn_pc = "get_matches"
    /\ \E col \in ColumnsChoice, exp \in BOOLEAN :
          /\ fn_cli = [search_term |-> <<"a">>, ignore_case |-> FALSE,
                       experimental |-> exp, columns |-> col]
          /\ \E ls \in SeqUpTo(ParseLines, MaxLines) :
                fn_content = CacheText(exp, ls)
    /\ fn_raw = NoResult
    /\ fn_sorted = NoResult
    /\ fn_colored = NoResult
    /\ fn_out = NoResult
    /\ fn_stdout = NoResult
    /\ fn_cache = NoResult
    /\ pc = <<>> /\ main_cli = <<>> /\ exit = <<>> /\ output = <<>>
    /\ cache_content = <<>> /\ written = <<>> /\ fd = <<>> /\ buf = <<>>
    /\ main_content = <<>> /\ folder = FALSE /\ dir = <<>> /\ tmp = {}
    /\ disk = <<>> /\ before = <<>> /\ result = <<>> /\ installed = <<>>
    /\ cache_file_exists = <<>> /\ launches = <<>> /\ warnings = <<>>

SpecParse == InitParse /\ [][NextFn]_vars

---------------------------------------------------------------------------
(* The normalisations of refresh() on their own: the plain-text            *)
(* substitution and parse_json_to_lines, applied to a captured stdout.     *)

\* Lines `nix-env -qaP --description` can print: three fields apart by
\* runs of spaces, a description with spaces of its own, fewer than three
\* fields, single spaces already, an empty description.
StdoutLines ==
    { <<"a", SP, SP, "1", SP, SP, "b">>,
      <<"b", SP, "2", SP, SP, SP, "a", SP, SP, "a">>,
      <<"a", SP, SP, "b">>,
      <<"a">>,
      <<"a", SP, "1", SP, "b">>,
      <<"b", SP, SP, "1", SP, SP>> }

\* Entries of the mapping: names of one segment and of two, a description
\* of two lines, an identifier of two segments only.
JsonEntries ==
    { [key |-> <<"l", ".", "x", ".", "b">>, version |-> <<"1">>,
       description |-> <<"a">>],
      [key |-> <<"l", ".", "x", ".", "a">>, version |-> <<"2">>,
       description |-> <<"b", SP, "a">>],
      [key |-> <<"l", ".", "x", ".", "a", ".", "b">>, version |-> <<"1">>,
       description |-> <<"a">>],
      [key |-> <<"l", ".", "x", ".", "B">>, version |-> <<"1">>,
       description |-> <<"b">>],
      [key |-> <<"l", ".", "x", ".", "b", "b">>, version |-> <<"1">>,
       description |-> <<"b", NL, "a">>],
      [key |-> <<"l", ".", "x">>, version |-> <<"1">>,
       description |-> <<"a">>] }

\* The iteration orders of the mappings of at most n entries: a HashMap
\* holds a key once and iterates in any order.
Mappings(n) ==
    { es \in SeqUpTo(JsonEntries, n) :
        \A i, j \in 1..Len(es) : i # j => es[i].key # es[j].key }

InitCache ==
    /\ \/ /\ fn_pc = "normalize"
          /\ fn_cli = [experimental |-> FALSE]
          /\ \E ls \in SeqUpTo(StdoutLines, MaxLines) :
                fn_stdout = print_lines(ls)
       \/ /\ fn_pc = "parse_json_to_lines"
          /\ fn_cli = [experimental |-> TRUE]
          /\ \/ \E es \in Mappings(MaxEntries) :
                   fn_stdout = [valid |-> TRUE, entries |-> es]
             \/ fn_stdout = [valid |-> FALSE, entries |-> <<>>]
    /\ fn_content = <<>>
    /\ fn_raw = NoResult
    /\ fn_sorted = NoResult
    /\ fn_colored = NoResult
    /\ fn_out = NoResult
    /\ fn_cache = NoResult
    /\ pc = <<>> /\ main_cli = <<>> /\ exit = <<>> /\ output = <<>>
    /\ cache_content = <<>> /\ written = <<>> /\ fd = <<>> /\ buf = <<>>
    /\ main_content = <<>> /\ folder = FALSE /\ dir = <<>> /\ tmp = {}
    /\ disk = <<>> /\ before = <<>> /\ result = <<>> /\ installed = <<>>
    /\ cache_file_exists = <<>> /\ launches = <<>> /\ warnings = <<>>

\* main.rs 748-752: re.replace_all(stdout, "$1 $2 $3").
FnNormalize ==
    /\ fn_pc = "normalize"
    /\ fn_cache' = normalized_output(fn_cli.experimental, fn_stdout)
    /\ fn_pc' = "done"
    /\ UNCHANGED <<fn_cli, fn_content, fn_raw, fn_sorted, fn_colored, fn_out>>
    /\ UNCHANGED fn_stdout
    /\ UNCHANGED <<procVars, fsVars, historyVars>>

\* main.rs 745: parse_json_to_lines(stdout).
FnParseJson ==
    /\ fn_pc = "parse_json_to_lines"
    /\ fn_cache' = normalized_output(fn_cli.experimental, fn_stdout)
    /\ fn_pc' = "done"
    /\ UNCHANGED <<fn_cli, fn_content, fn_raw, fn_sorted, fn_colored, fn_out>>
    /\ UNCHANGED fn_stdout
    /\ UNCHANGED <<procVars, fsVars, historyVars>>

NextCache == FnNormalize \/ FnParseJson

SpecCache == InitCache /\ [][NextCache]_vars

---------------------------------------------------------------------------
(* Properties of the search pipeline (SpecSearch).                         *)

\* sort_and_pad_matches has returned.
Sorted == fn_pc = "color_matches"

\* The matched lines sort_and_pad_matches was given.
Matched == lines(fn_raw.val)

\* The matched line at position i was pushed to bucket b.
Holds(b, i) == \E k \in 1..Len(b) : b[k].src = i

InExact(i) == Holds(fn_sorted.val.exact, i)
InDirect(i) == Holds(fn_sorted.val.direct, i)
InIndirect(i) == Holds(fn_sorted.val.indirect, i)

\* The three buckets in one sequence.
AllPushed ==
    fn_sorted.val.exact \o fn_sorted.val.direct \o fn_sorted.val.indirect

\* Two characters that are the same letter.
SameLetter(c, d) ==
    c = d \/ {c, d} = {"a", "A"} \/ {c, d} = {"b", "B"}

\* s equals t ignoring letter case.
EqualIgnoringCase(s, t) ==
    Len(s) = Len(t) /\ \A k \in 1..Len(s) : SameLetter(s[k], t[k])

\* s equals t under the active case rule.
EqualUnderCaseRule(s, t) ==
    IF fn_cli.ignore_case THEN EqualIgnoringCase(s, t) ELSE s = t

\* s begins with p under the active case rule.
BeginsUnderCaseRule(s, p) ==
    Len(p) <= Len(s) /\ EqualUnderCaseRule(SubSeq(s, 1, Len(p)), p)

\* t occurs in s as text under the active case rule.
ContainsUnderCaseRule(s, t) ==
    \E i \in 1..(Len(s) - Len(t) + 1) :
        EqualUnderCaseRule(SubSeq(s, i, i + Len(t) - 1), t)

Term == fn_cli.search_term

\* The name is the term behind one of the two channel prefixes.
NameIsPrefixedTerm(name) ==
    \/ EqualUnderCaseRule(name, NIXOS \o Term)
    \/ EqualUnderCaseRule(name, NIXPKGS \o Term)

\* The name-prefix match of the mode: the name begins with the term, in
\* namespace mode with the term behind "nixos." or "nixpkgs.".
NameBeginsWithTerm(name) ==
    IF fn_cli.experimental THEN BeginsUnderCaseRule(name, Term)
    ELSE \/ BeginsUnderCaseRule(name, NIXOS \o Term)
         \/ BeginsUnderCaseRule(name, NIXPKGS \o Term)

C5_ExactIffNameEqualsTerm ==
    (Sorted /\ fn_cli.experimental) =>
        \A i \in 1..Len(Matched) :
            InExact(i) <=> EqualUnderCaseRule(name_of(Matched[i]), Term)

\* C5 witness: a case-sensitive search placed a name equal to the term in
\* Exact and kept a name differing from it only in case out of Exact.
C5_Witness ==
    /\ Sorted /\ fn_cli.experimental /\ ~fn_cli.ignore_case
    /\ \E i, j \in 1..Len(Matched) :
          /\ name_of(Matched[i]) = Term /\ InExact(i)
          /\ name_of(Matched[j]) # Term
          /\ EqualIgnoringCase(name_of(Matched[j]), Term)
          /\ ~InExact(j)

\* C6: with experimental=false every matched record whose normalized name
\* is "nixos." + term or "nixpkgs." + term is in Exact, each record on its
\* own: two records of one package under both prefixes are both in Exact.
C6_PrefixedNameIsExact ==
    (Sorted /\ ~fn_cli.experimental) =>
        \A i \in 1..Len(Matched) :
            NameIsPrefixedTerm(name_of(Matched[i])) => InExact(i)

\* C6 witness: the cache holds the package under both prefixes and Exact
\* holds both records.
C6_Witness ==
    /\ Sorted /\ ~fn_cli.experimental
    /\ \E i, j \in 1..Len(Matched) :
          /\ EqualUnderCaseRule(name_of(Matched[i]), NIXOS \o Term)
          /\ EqualUnderCaseRule(name_of(Matched[j]), NIXPKGS \o Term)
          /\ InExact(i) /\ InExact(j)
          /\ Len(fn_sorted.val.exact) >= 2

\* C7: a matched record is in Direct exactly when its normalized name
\* begins with the normalized term (in namespace mode behind "nixos." or
\* "nixpkgs.") and the record is not in Exact.
C7_DirectIffNamePrefix ==
    Sorted =>
        \A i \in 1..Len(Matched) :
            InDirect(i) <=>
                (NameBeginsWithTerm(name_of(Matched[i])) /\ ~InExact(i))

\* C7 witness: in namespace mode one record is Direct, one whose name also
\* begins with the prefixed term is Exact and so not Direct, and one name
\* that begins with the bare term only is not Direct.
C7_Witness ==
    /\ Sorted /\ ~fn_cli.experimental
    /\ \E i, j, k \in 1..Len(Matched) :
          /\ InDirect(i)
          /\ NameBeginsWithTerm(name_of(Matched[j])) /\ InExact(j)
          /\ BeginsUnderCaseRule(name_of(Matched[k]), Term) /\ InIndirect(k)

\* C8 as stated: a line of the cache is in some bucket exactly when it
\* contains the search term as text under the active case rule, and a
\* record is in Indirect exactly when it is in neither Exact nor Direct.
C8_BucketedIffContainsTerm ==
    Sorted =>
        /\ \A c \in 1..Len(lines(fn_content)) :
              LET line == lines(fn_content)[c] IN
              (\E k \in 1..Len(AllPushed) : Matched[AllPushed[k].src] = line)
                  <=> ContainsUnderCaseRule(line, Term)
        /\ \A i \in 1..Len(Matched) :
              InIndirect(i) <=> (~InExact(i) /\ ~InDirect(i))

\* C9: every matched line is in exactly one bucket: the buckets share no
\* position, no bucket holds a position twice, the three lengths add up to
\* the number of matched lines, and a line that qualifies for a bucket of
\* higher priority is not in a lower one.
C9_ExactlyOneBucket ==
    Sorted =>
        LET b == fn_sorted.val IN
        /\ \A i \in 1..Len(Matched) :
              /\ InExact(i) \/ InDirect(i) \/ InIndirect(i)
              /\ ~(InExact(i) /\ InDirect(i))
              /\ ~(InExact(i) /\ InIndirect(i))
              /\ ~(InDirect(i) /\ InIndirect(i))
        /\ Len(b.exact) + Len(b.direct) + Len(b.indirect) = Len(Matched)
        /\ \A i \in 1..Len(Matched) :
              LET name == name_of(Matched[i])
                  exact == IF fn_cli.experimental
                           THEN EqualUnderCaseRule(name, Term)
                           ELSE NameIsPrefixedTerm(name)
              IN  /\ exact => InExact(i)
                  /\ (~exact /\ NameBeginsWithTerm(name)) => InDirect(i)

\* C9 witness: all three buckets are filled.
C9_Witness ==
    /\ Sorted
    /\ fn_sorted.val.exact # <<>>
    /\ fn_sorted.val.direct # <<>>
    /\ fn_sorted.val.indirect # <<>>

\* Largest str::len of the names, and of the versions, of ALL matched lines.
MaxNameLen ==
    LET S == {len(name_of(Matched[i])) : i \in 1..Len(Matched)} IN
    CHOOSE m \in S : \A n \in S : n <= m

MaxVersionLen ==
    LET S == {len(version_of(Matched[i])) : i \in 1..Len(Matched)} IN
    CHOOSE m \in S : \A n \in S : n <= m

\* text is s, then spaces up to column w, then exactly two more spaces, and
\* rest is what follows them.
PaddedColumn(text, s, w, rest) ==
    /\ Len(s) <= w
    /\ Len(text) >= w + 2
    /\ SubSeq(text, 1, Len(s)) = s
    /\ \A k \in (Len(s) + 1)..(w + 2) : text[k] = SP
    /\ SubSeq(text, w + 3, Len(text)) = rest

\* C10: in every column mode but name-only, each rendered line of each
\* bucket is the name padded to the largest name length (str::len) of all
\* matched records, two spaces, and then: the version (version mode), the
\* description (description mode), or the version padded to the largest
\* version length of all matched records, two spaces and the description.
C10_GlobalColumnWidths ==
    (Sorted /\ fn_cli.columns # "none") =>
        \A k \in 1..Len(AllPushed) :
            LET line == Matched[AllPushed[k].src]
                text == AllPushed[k].text
            IN  CASE fn_cli.columns = "version" ->
                       PaddedColumn(text, name_of(line), MaxNameLen,
                                    version_of(line))
                  [] fn_cli.columns = "description" ->
                       PaddedColumn(text, name_of(line), MaxNameLen,
                                    description_of(line))
                  [] fn_cli.columns = "all" ->
                       /\ Len(text) >= MaxNameLen + 2
                       /\ PaddedColumn(text, name_of(line), MaxNameLen,
                                       SubSeq(text, MaxNameLen + 3, Len(text)))
                       /\ PaddedColumn(SubSeq(text, MaxNameLen + 3, Len(text)),
                                       version_of(line), MaxVersionLen,
                                       description_of(line))

\* C10 witness: names of three different lengths in three different
\* buckets, rendered with all columns.
C10_Witness ==
    /\ Sorted /\ fn_cli.columns = "all"
    /\ \E i, j, k \in 1..Len(Matched) :
          /\ InExact(i) /\ InDirect(j) /\ InIndirect(k)
          /\ Len(name_of(Matched[i])) < Len(name_of(Matched[j]))
          /\ Len(name_of(Matched[k])) < Len(name_of(Matched[i]))
          /\ Len(version_of(Matched[i])) < Len(version_of(Matched[j]))

\* The line up to its first space (the whole line if it has none).
UpToFirstSpace(line) ==
    IF IndexOf(line, SP) = 0 THEN line
    ELSE SubSeq(line, 1, IndexOf(line, SP) - 1)

\* C11: in name-only mode (columns = none) every rendered line is the
\* record's name and one space behind it: no padding, no version, no
\* description.
C11_NameOnlyTrailingSpace ==
    (Sorted /\ fn_cli.columns = "none") =>
        \A k \in 1..Len(AllPushed) :
            AllPushed[k].text =
                UpToFirstSpace(Matched[AllPushed[k].src]) \o <<SP>>

\* C11 witness: name-only mode with names of different lengths, so that a
\* padded name column would show.
C11_Witness ==
    /\ Sorted
    /\ fn_cli.columns = "none"
    /\ \E i, j \in 1..Len(Matched) :
          /\ Len(name_of(Matched[i])) < Len(name_of(Matched[j]))
          /\ version_of(Matched[i]) # <<>>
          /\ description_of(Matched[i]) # <<>>

\* The number of spaces of a line.
SpaceCount(line) == Cardinality({k \in 1..Len(line) : line[k] = SP})

\* The rendered line of a record with the given fields.
Rendered(name, version, description) ==
    CASE fn_cli.columns = "all" ->
           pad(name, MaxNameLen) \o <<SP, SP>> \o pad(version, MaxVersionLen)
               \o <<SP, SP>> \o description
      [] fn_cli.columns = "version" -> pad(name, MaxNameLen) \o <<SP, SP>> \o version
      [] fn_cli.columns = "description" ->
           pad(name, MaxNameLen) \o <<SP, SP>> \o description
      [] fn_cli.columns = "none" -> name \o <<SP>>

\* C20: sort_and_pad_matches returns Ok whatever the matched lines hold,
\* every matched line is rendered, and a line with fewer than three
\* fields is rendered with the empty string for what it lacks: a line
\* without a space has an empty version and an empty description, a line
\* "name version" an empty description.
C20_ParsingNeverFails ==
    Sorted =>
        /\ fn_sorted.ok
        /\ Len(AllPushed) = Len(Matched)
        /\ \A k \in 1..Len(AllPushed) :
              LET line == Matched[AllPushed[k].src]
                  text == AllPushed[k].text
              IN  /\ SpaceCount(line) = 0 =>
                        text = Rendered(line, <<>>, <<>>)
                  /\ SpaceCount(line) = 1 =>
                        text = Rendered(UpToFirstSpace(line),
                                        SubSeq(line, IndexOf(line, SP) + 1,
                                               Len(line)),
                                        <<>>)

\* C20 witness: a line of one field and a line of two fields were
\* rendered with all columns next to a line of three fields.
C20_Witness ==
    /\ Sorted
    /\ fn_sorted.ok
    /\ fn_cli.columns = "all"
    /\ \E i, j, k \in 1..Len(Matched) :
          /\ SpaceCount(Matched[i]) = 0
          /\ SpaceCount(Matched[j]) = 1
          /\ SpaceCount(Matched[k]) = 2
          /\ description_of(Matched[k]) # <<>>

---------------------------------------------------------------------------
(* Properties of color_matches and print_matches (SpecPrint).              *)

\* color_matches has returned its three buffers.
Colored == fn_colored.ok

\* print_matches has written to stdout.
Printed == fn_out.ok

Kinds == <<"exact", "direct", "indirect">>

\* The bucket of a kind as sort_and_pad_matches returned it.
BucketOf(kind) ==
    CASE kind = "exact" -> fn_sorted.val.exact
      [] kind = "direct" -> fn_sorted.val.direct
      [] kind = "indirect" -> fn_sorted.val.indirect

\* The rendered lines of the bucket b in the order flip asks for:
\* as pushed with flip, last pushed first without.
InFlipOrder(b) ==
    [k \in 1..Len(b) |->
        IF fn_cli.flip THEN b[k].text ELSE b[Len(b) + 1 - k].text]

\* A text without the escape sequences.
Unmark(s) == SelectSeq(s, LAMBDA c : c \notin Markers)

\* C12: for each bucket color_matches emits one output line per rendered
\* line, in the bucket's order, with the text of the rendered line; a line
\* in which nothing is to be marked is emitted as it is, and no line is
\* dropped.
C12_NoLineDropped ==
    Colored =>
        \A b \in 1..3 :
            LET rendered == InFlipOrder(BucketOf(Kinds[b]))
                emitted == lines(fn_colored.val[b])
            IN  /\ Len(emitted) = Len(rendered)
                /\ \A k \in 1..Len(rendered) :
                      /\ Unmark(emitted[k]) = rendered[k]
                      /\ ~regex_is_match(Term, fn_cli.ignore_case, rendered[k])
                            => emitted[k] = rendered[k]

\* C12 witness: with colours, a bucket of a line the term is marked in and
\* a line that has no occurrence because name-only mode hides the column
\* the match was in.
C12_Witness ==
    /\ Colored
    /\ fn_cli.color_choice = "always"
    /\ fn_cli.columns = "none"
    /\ \E j, k \in 1..Len(fn_sorted.val.indirect) :
          /\ ~regex_is_match(Term, fn_cli.ignore_case,
                             fn_sorted.val.indirect[j].text)
          /\ regex_is_match(Term, fn_cli.ignore_case,
                            fn_sorted.val.indirect[k].text)

\* The text with every occurrence of the term as text (under the case
\* rule), from left to right and none overlapping another, between the
\* emphasis of the kind and the reset.
MarkOccurrences(text, kind) ==
    LET RECURSIVE m(_)
        m(j) ==
            IF j > Len(text) THEN <<>>
            ELSE IF /\ j + Len(Term) - 1 <= Len(text)
                    /\ EqualUnderCaseRule(SubSeq(text, j, j + Len(Term) - 1), Term)
            THEN <<RESET, BOLD, fg(kind)>> \o SubSeq(text, j, j + Len(Term) - 1)
                     \o <<RESET>> \o m(j + Len(Term))
            ELSE <<text[j]>> \o m(j + 1)
    IN  m(1)

\* C13 as stated: with colours every occurrence of the search term in a
\* line of a bucket is between the bold emphasis of that bucket and a
\* reset, the text outside the occurrences carries no marker, and the
\* line without its markers is the rendered line; without colours the
\* output is the rendered lines.
C13_OccurrencesMarked ==
    Colored =>
        \A b \in 1..3 :
            LET rendered == InFlipOrder(BucketOf(Kinds[b]))
                emitted == lines(fn_colored.val[b])
            IN  /\ Len(emitted) = Len(rendered)
                /\ \A k \in 1..Len(rendered) :
                      emitted[k] =
                          IF fn_cli.color_choice = "always"
                          THEN MarkOccurrences(rendered[k], Kinds[b])
                          ELSE rendered[k]

\* A line without the white space at its two ends.
Strip(line) == trim(line)

\* The lines that hold more than white space, each stripped.
Content(ls) ==
    LET stripped == [k \in 1..Len(ls) |-> Strip(ls[k])]
    IN  SelectSeq(stripped, LAMBDA l : l # <<>>)

\* The lines stdout received.
PrintedLines == lines(fn_out.val)

\* The block of a kind: the buffer color_matches returned for it.
Block(kind) ==
    CASE kind = "exact" -> fn_colored.val[1]
      [] kind = "direct" -> fn_colored.val[2]
      [] kind = "indirect" -> fn_colored.val[3]

\* The kinds in the order of the printed blocks.
PrintOrder ==
    IF fn_cli.flip THEN <<"exact", "direct", "indirect">>
    ELSE <<"indirect", "direct", "exact">>

CacheLines == lines(fn_content)

\* The rendered lines of a kind in the order of their lines in the cache
\* with flip, and in the reverse of it without.
InCacheOrder(kind) ==
    LET b == BucketOf(kind)
        srcs == {b[k].src : k \in 1..Len(b)}
        \* the element of the bucket that is n-th in the cache
        nth(n) == CHOOSE e \in {b[k] : k \in 1..Len(b)} :
                      Cardinality({x \in srcs : x <= e.src}) = n
    IN  [n \in 1..Len(b) |->
            IF fn_cli.flip THEN nth(n).text ELSE nth(Len(b) + 1 - n).text]

\* C15: within each printed block the records are in the order of their
\* lines in the cache with flip, and in the reverse of that order without;
\* nothing else reorders two records of a bucket.
C15_OrderWithinBlock ==
    Printed =>
        /\ Matched = SelectSeq(CacheLines,
                               LAMBDA l : \E i \in 1..Len(Matched) : Matched[i] = l)
        /\ Content([k \in 1..Len(PrintedLines) |-> Unmark(PrintedLines[k])]) =
               Content(InCacheOrder(PrintOrder[1])) \o
               Content(InCacheOrder(PrintOrder[2])) \o
               Content(InCacheOrder(PrintOrder[3]))

\* C15 witness: printed without flip, a block of two records whose
\* rendered lines differ.
C15_Witness ==
    /\ Printed
    /\ ~fn_cli.flip
    /\ \E kind \in {"exact", "direct", "indirect"} :
          /\ Len(BucketOf(kind)) >= 2
          /\ Strip(BucketOf(kind)[1].text) # Strip(BucketOf(kind)[2].text)
          /\ Strip(BucketOf(kind)[1].text) # <<>>
          /\ Strip(BucketOf(kind)[2].text) # <<>>

\* What is printed for the buckets of this search with flip set to fl and
\* every other setting as it is.
PrintedWithFlip(fl) ==
    LET c == [fn_cli EXCEPT !.flip = fl] IN
    lines(print_matches(c, color_matches(c, fn_sorted.val, c.color_choice).val).val)

\* C16 as stated: for the same buckets and the same other settings, the
\* lines printed with flip (separator lines too) are the lines printed
\* without flip in the reverse order.
C16_FlipReversesOutput ==
    Printed =>
        /\ PrintedLines = PrintedWithFlip(fn_cli.flip)
        /\ PrintedWithFlip(TRUE) = reverse(PrintedWithFlip(FALSE))

\* The number of non-empty blocks.
NonEmptyBlocks == Cardinality({b \in 1..3 : fn_colored.val[b] # <<>>})

\* The positions of the printed lines that are empty.
BlankLines == {k \in 1..Len(PrintedLines) : PrintedLines[k] = <<>>}

\* C17 as stated: with separators the printed output has one blank line
\* between every two adjacent non-empty blocks and no other blank line
\* (none first, none last, k - 1 for k non-empty blocks); without
\* separators it has no blank line.
C17_BlankLinesBetweenBlocks ==
    Printed =>
        /\ Cardinality(BlankLines) =
               IF fn_cli.separate THEN NonEmptyBlocks - 1 ELSE 0
        /\ 1 \notin BlankLines
        /\ Len(PrintedLines) \notin BlankLines
        /\ \A k \in BlankLines : k + 1 \notin BlankLines

\* The non-empty blocks color_matches returned, in the order they are
\* printed in: exact, direct, indirect with flip, the reverse without.
BlocksInPrintOrder ==
    LET blocks == SelectSeq(fn_colored.val, LAMBDA b : b # <<>>) IN
    IF fn_cli.flip THEN blocks
    ELSE [k \in 1..Len(blocks) |-> blocks[Len(blocks) + 1 - k]]

\* C28: print_matches writes every highlighted line byte for byte: the
\* printed text is the concatenation of the non-empty blocks in print
\* order, with one empty line between two blocks when separators are on,
\* and it ends with the line break of the last line; the first and the
\* last printed line keep the white space they begin and end with.
C28_PrintedByteForByte ==
    Printed =>
        fn_out.val = join(BlocksInPrintOrder,
                          IF fn_cli.separate THEN <<NL>> ELSE <<>>)

---------------------------------------------------------------------------
(* Properties of the normalisations (SpecCache).                           *)

\* parse_json_to_lines has returned Ok.
Parsed == fn_pc = "done" /\ fn_cli.experimental /\ fn_cache.ok

\* The plain-text substitution was applied.
Normalized == fn_pc = "done" /\ ~fn_cli.experimental

\* The identifier behind its second ".".
AfterSecondDot(key) ==
    LET d1 == IndexOf(key, ".")
        rest == SubSeq(key, d1 + 1, Len(key))
    IN  SubSeq(rest, IndexOf(rest, ".") + 1, Len(rest))

\* "name version description" of an entry of the mapping.
LineOfEntry(e) ==
    AfterSecondDot(e.key) \o <<SP>> \o e.version \o <<SP>> \o e.description

\* The other iteration orders of the same mapping.
IterationOrders(es) ==
    { p \in [1..Len(es) -> {es[k] : k \in 1..Len(es)}] :
        \A i, j \in 1..Len(es) : i # j => p[i] # p[j] }

\* C18 as stated: parse_json_to_lines gives one line "name version
\* description" per entry of the mapping, the name being the identifier
\* behind its second ".", the lines ascending in the order of their bytes,
\* and the same text for every iteration order of the mapping.
C18_OneSortedLinePerEntry ==
    Parsed =>
        LET es == fn_stdout.entries
            ls == lines(fn_cache.val)
        IN  /\ Len(ls) = Len(es)
            /\ {ls[k] : k \in 1..Len(ls)} = {LineOfEntry(es[k]) : k \in 1..Len(es)}
            /\ \A k \in 1..(Len(ls) - 1) : str_le(ls[k], ls[k + 1])
            /\ \A p \in IterationOrders(es) :
                  parse_json_to_lines([valid |-> TRUE, entries |-> p]) = fn_cache

\* The fields of a line: the runs of characters that are no spaces.
Fields(line) ==
    LET RECURSIVE f(_)
        f(i) ==
            IF i > Len(line) THEN <<>>
            ELSE IF line[i] = SP THEN f(i + 1)
            ELSE <<[from |-> i, to |-> run_end(line, i, FALSE)]>>
                     \o f(run_end(line, i, FALSE) + 1)
    IN  f(1)

\* "name version description" of a line of three fields or more: the
\* first two fields and the text from the third field on.
SingleSpaced(line) ==
    LET fs == Fields(line) IN
    SubSeq(line, fs[1].from, fs[1].to) \o <<SP>>
        \o SubSeq(line, fs[2].from, fs[2].to) \o <<SP>>
        \o SubSeq(line, fs[3].from, Len(line))

\* C19 as stated: the plain-text normalisation works line by line: as
\* many lines out as in, each output line made of its input line alone,
\* and a line of three fields or more becomes "name version description"
\* with one space behind the name and one behind the version, whatever the
\* lines next to it hold.
C19_NormalizationPerLine ==
    Normalized =>
        LET ins == lines(fn_stdout)
            outs == lines(fn_cache.val)
        IN  /\ Len(outs) = Len(ins)
            /\ \A k \in 1..Len(ins) :
                  /\ outs[k] = normalize(ins[k])
                  /\ Len(Fields(ins[k])) >= 3 => outs[k] = SingleSpaced(ins[k])

---------------------------------------------------------------------------
(* Properties of the parser (SpecParse).                                   *)

\* The text of the line from position i on.
From(line, i) == SubSeq(line, i, Len(line))

\* A line read as fields between runs of spaces: the first field, the
\* second, and the text from the third field on.
ByRuns(line) ==
    LET fs == Fields(line) IN
    [name |-> IF Len(fs) >= 1 THEN SubSeq(line, fs[1].from, fs[1].to) ELSE <<>>,
     version |-> IF Len(fs) >= 2 THEN SubSeq(line, fs[2].from, fs[2].to) ELSE <<>>,
     description |-> IF Len(fs) >= 3 THEN From(line, fs[3].from) ELSE <<>>]

\* A line read as fields behind single spaces: the text before the first
\* space, the text between the first and the second space, and the text
\* behind the second space.
BySingleSpaces(line) ==
    LET i == IndexOf(line, SP)
        rest == IF i = 0 THEN <<>> ELSE From(line, i + 1)
        j == IndexOf(rest, SP)
    IN  [name |-> IF i = 0 THEN line ELSE SubSeq(line, 1, i - 1),
         version |-> IF j = 0 THEN rest ELSE SubSeq(rest, 1, j - 1),
         description |-> IF j = 0 THEN <<>> ELSE From(rest, j + 1)]

\* The longest of the lengths (str::len) of a field over the matched lines.
WidestOf(S) == CHOOSE m \in S : \A n \in S : n <= m

\* The rendered line of a record r in columns as wide as the records rs.
RenderedAs(r, rs) ==
    LET nw == WidestOf({len(x.name) : x \in rs})
        vw == WidestOf({len(x.version) : x \in rs})
    IN  CASE fn_cli.columns = "all" ->
               pad(r.name, nw) \o <<SP, SP>> \o pad(r.version, vw)
                   \o <<SP, SP>> \o r.description
          [] fn_cli.columns = "version" -> pad(r.name, nw) \o <<SP, SP>> \o r.version
          [] fn_cli.columns = "description" ->
               pad(r.name, nw) \o <<SP, SP>> \o r.description
          [] fn_cli.columns = "none" -> r.name \o <<SP>>

---------------------------------------------------------------------------
(* Properties of main() and refresh() (Spec, SpecRefresh).                 *)

\* refresh() of invocation p returned Err.
RefreshFailed(p) == result[p] \notin {"none", "Ok"}

\* The versions of a cache file: what was there at the start and what each
\* rename put there, in the order of the renames.
Versions(path) == {installed[path][k] : k \in DOMAIN installed[path]}

\* C1: whatever makes refresh() fail (the command does not start, stdout
\* or stderr is no UTF-8, stdout is below the threshold, the JSON does not
\* decode, the folder or the temporary file cannot be created, the write
\* or the persist fails), a cache file that existed at the destination
\* before the call has the same bytes after refresh() returned.
C1_FailedRefreshKeepsCache ==
    \A p \in Procs :
        RefreshFailed(p) /\ before[p] # Null =>
            FileContent(file_path(main_cli[p])) = before[p]

\* A refresh that failed at its last step, the persist, after it wrote a
\* whole new text that differs from the cache that was there.
C1_Witness ==
    \E p \in Procs :
        /\ result[p] = "Can't persist temp file"
        /\ before[p] # Null
        /\ disk[tempfile(p)] # <<>>
        /\ disk[tempfile(p)] # before[p]
        /\ FileContent(file_path(main_cli[p])) = before[p]

\* C2: with invocations that refresh and invocations that read running at
\* the same time, every read returns one whole version of the cache file
\* (the previous one, or the text of one refresh; never an empty, cut or
\* mixed text), and the cache file holds the text of the last rename.
C2_ReadersSeeCompleteVersions ==
    /\ \A p \in Procs :
          main_content[p] # Null =>
              main_content[p] \in Versions(file_path(main_cli[p]))
    /\ \A path \in Paths :
          installed[path] # <<>> =>
              FileContent(path) = installed[path][Len(installed[path])]

\* Two refreshes raced: an invocation finished reading the text of the
\* first rename after a second refresh had renamed another text over it.
C2_Witness ==
    \E p \in Procs :
        LET v == installed[file_path(main_cli[p])] IN
        /\ main_content[p] # Null
        /\ Len(v) >= 2
        /\ main_content[p] = v[Len(v) - 1]
        /\ main_content[p] # v[Len(v)]
        /\ \E q \in Procs \ {p} : result[q] = "Ok"

\* C3 as stated: every invocation whose search ran to its end on a cache
\* it could read exits with success, also when no line matched.
C3_CompletedSearchSucceeds ==
    \A p \in Procs :
        exit[p].why \in {"printed", "no matches"} => exit[p].code = "SUCCESS"

\* C3 as amended: an invocation whose search ran to its end on a cache it
\* could read exits with success when it printed matches, and with failure
\* when no line of the cache matched.
C3_ExitCodeOfCompletedSearch ==
    \A p \in Procs :
        /\ exit[p].why = "printed" => exit[p].code = "SUCCESS"
        /\ exit[p].why = "no matches" => exit[p].code = "FAILURE"

\* A search without matches on a cache that was read has returned.
C3_Witness ==
    \E p \in Procs :
        /\ pc[p] = "exit"
        /\ exit[p].why = "no matches"
        /\ ~main_cli[p].refresh
        /\ FileContent(file_path(main_cli[p])) # Null

\* The number of dot-separated segments of an identifier.
Segments(key) == 1 + Cardinality({k \in DOMAIN key : key[k] = "."})

\* An Output of the listing command that is no valid UTF-8, or whose stdout
\* is shorter than 10,000 bytes, or, in the JSON mode, whose stdout is no
\* mapping of identifiers with three segments or more.
Unusable(c, o) ==
    \/ ~o.stdout_utf8
    \/ ~o.stderr_utf8
    \/ o.stdout_len < 10000
    \/ /\ c.experimental
       /\ \/ ~o.stdout.valid
          \/ \E k \in DOMAIN o.stdout.entries :
                Segments(o.stdout.entries[k].key) < 3

\* main() has returned FAILURE for a refresh() that returned an error, and
\* has read no cache.
FailedInRefresh(p) ==
    /\ pc[p] = "exit"
    /\ RefreshFailed(p)
    /\ exit[p] = [code |-> "FAILURE", why |-> "Can't refresh cache"]
    /\ main_content[p] = Null
    /\ fd[p] = NoFile

\* C22: when the listing command cannot be launched (Command::output() is
\* called and hands back no Output), or its output is no valid UTF-8, or its
\* stdout is shorter than 10,000 bytes, or (JSON mode) its stdout is no
\* decodable mapping of identifiers with at least three segments, refresh()
\* returns an error and main() returns FAILURE at once, without reading
\* the cache, searching or printing; nothing follows that return.
C22_UnusableOutputFails ==
    [][\A p \in Procs :
          /\ launches'[p] # launches[p] /\ pc'[p] # "refresh_check" =>
                FailedInRefresh(p)'
          /\ pc[p] = "refresh_check" /\ pc'[p] # pc[p]
                /\ Unusable(main_cli[p], output[p]) =>
                FailedInRefresh(p)'
          /\ FailedInRefresh(p) => FailedInRefresh(p)']_vars

\* A JSON listing of 10,000 bytes with an identifier of two segments made
\* the invocation end with FAILURE.
C22_Witness ==
    \E p \in Procs :
        /\ main_cli[p].experimental
        /\ launches[p] = 1
        /\ result[p] = "Can't parse JSON"
        /\ FailedInRefresh(p)

\* The reasons refresh() fails for once the output was accepted.
FileSystemReasons ==
    { "Can't create folder", "Can't create temp file",
      "Can't write to temp file", "Can't persist temp file" }

\* C23: what refresh() does is a function of stdout alone, whatever valid
\* UTF-8 text stderr holds: an output of 10,000 bytes or more that decodes
\* is accepted, the text to be written is the normalisation of stdout,
\* the stderr lines that are no standard logging are logged as warnings
\* and do nothing else, a refresh that succeeds leaves the normalisation
\* of stdout in the cache file, and one that fails later fails at the
\* file system.
C23_StderrOnlyWarns ==
    [][\A p \in Procs :
          LET c == main_cli[p]
              path == file_path(main_cli[p])
          IN
          /\ pc[p] = "refresh_check" /\ pc'[p] # pc[p]
                /\ ~Unusable(c, output[p]) =>
                /\ pc'[p] = "refresh_create_dir"
                /\ cache_content'[p] =
                      normalized_output(c.experimental, output[p].stdout).val
                /\ warnings'[p] =
                      SelectSeq(lines(output[p].stderr),
                                LAMBDA l : ~starts_with(l, Evaluating))
          /\ pc[p] = "refresh_persist" /\ result'[p] = "Ok" =>
                FileContent(path)' =
                    normalized_output(c.experimental, output[p].stdout).val
          /\ pc[p] \in {"refresh_create_dir", "refresh_tempfile",
                        "refresh_write", "refresh_persist"}
                /\ RefreshFailed(p)' =>
                result'[p] \in FileSystemReasons]_vars

\* A refresh succeeded although the command wrote a line to stderr that
\* is no standard logging: the line was logged, the cache was written.
C23_Witness ==
    \E p \in Procs :
        /\ result[p] = "Ok"
        /\ warnings[p] = <<<<"e", "r", "r", "o", "r">>>>
        /\ FileContent(file_path(main_cli[p])) # Null
        /\ FileContent(file_path(main_cli[p])) # OldContent(file_path(main_cli[p]))

\* The invocation found, or will find, its cache file and was not asked to
\* refresh.
SearchOnly(p) ==
    /\ ~main_cli[p].refresh
    /\ IF pc[p] = "main" THEN dir[file_path(main_cli[p])] # NoFile
       ELSE cache_file_exists[p]

\* C24: no step of an invocation that finds its cache file and was not asked
\* to refresh changes the cache folder or the bytes of a cache file,
\* whatever the term and the options and however it ends; and the bytes a
\* cache file name leads to change only in the step that ends a successful
\* refresh, which puts the whole new text there.
C24_SearchKeepsCache ==
    [][/\ \A p \in Procs :
             SearchOnly(p) =>
                /\ SearchOnly(p)'
                /\ dir' = dir
                /\ \A path \in Paths :
                      /\ FileContent(path)' = FileContent(path)
                      /\ FileContent(path) = IF dir[path] = NoFile THEN Null
                                             ELSE OldContent(path)
                /\ launches'[p] = 0
       /\ \A path \in Paths :
             FileContent(path)' # FileContent(path) =>
                \E p \in Procs :
                   /\ pc[p] = "refresh_persist"
                   /\ file_path(main_cli[p]) = path
                   /\ result'[p] = "Ok"
                   /\ FileContent(path)' = cache_content[p]]_vars

\* A search on a cache file that was there printed matches and returned:
\* the cache file holds what it held at the start.
C24_Witness ==
    \E p \in Procs :
        /\ pc[p] = "exit"
        /\ SearchOnly(p)
        /\ exit[p].why = "printed"
        /\ FileContent(file_path(main_cli[p])) = OldContent(file_path(main_cli[p]))

\* The cache file of the invocation was there when the invocation started
\* (one invocation: a rename of its own is the only one).
ExistedAtStart(p) ==
    Len(installed[file_path(main_cli[p])]) > (IF result[p] = "Ok" THEN 1 ELSE 0)

OwnFile(p) ==
    IF main_cli[p].experimental THEN "nps.experimental.cache" ELSE "nps.cache"

OtherFile(p) ==
    IF main_cli[p].experimental THEN "nps.cache" ELSE "nps.experimental.cache"

\* C26: the two modes keep their caches under two names, nps.cache and
\* nps.experimental.cache.  No step of an invocation creates, removes,
\* replaces or rewrites the file of the other mode; the file an invocation
\* opens for reading is the one under the name of its own mode, the text it
\* searches is the text of that file, and the only name a refresh renames
\* its temporary file to is the name of its own mode.
C26_OwnCacheFileOnly ==
    [][\A p \in Procs :
          /\ dir'[OtherFile(p)] = dir[OtherFile(p)]
          /\ FileContent(OtherFile(p))' = FileContent(OtherFile(p))
          /\ \A i \in {-1, -2} :
                dir[OtherFile(p)] = i => disk'[i] = disk[i]
          /\ fd'[p] # fd[p] /\ fd'[p] # NoFile => fd'[p] = dir[OwnFile(p)]
          /\ pc'[p] = "get_matches" =>
                main_content'[p] = FileContent(OwnFile(p))
          /\ dir'[OwnFile(p)] # dir[OwnFile(p)] =>
                /\ pc[p] = "refresh_persist"
                /\ FileContent(OwnFile(p))' = cache_content[p]]_vars

\* With both cache files there, an invocation of the JSON mode replaced
\* nps.experimental.cache, and nps.cache is as it was.
C26_Witness ==
    \E p \in Procs :
        /\ main_cli[p].experimental
        /\ result[p] = "Ok"
        /\ Len(installed["nps.experimental.cache"]) = 2
        /\ dir["nps.cache"] = OldInode("nps.cache")
        /\ FileContent("nps.cache") = OldContent("nps.cache")
        /\ FileContent("nps.experimental.cache") # OldContent("nps.experimental.cache")

\* refresh() holds the Output of the listing command.
HoldsOutput(p) ==
    pc[p] \in {"refresh_check", "refresh_create_dir", "refresh_tempfile",
               "refresh_write", "refresh_persist"}

\* C27: refresh() replaces the cache only with the output of a listing
\* command that completed successfully: when the command was launched and
\* ended with an exit status other than 0, refresh() reports a failure at
\* its check of the output, and no later step of it changes the cache
\* file, also when stdout holds 10,000 bytes or more of valid text.
C27_FailedCommandKeepsCache ==
    [][\A p \in Procs :
          HoldsOutput(p) /\ output[p].status # 0 =>
             /\ pc[p] = "refresh_check" /\ pc'[p] # pc[p] => RefreshFailed(p)'
             /\ FileContent(file_path(main_cli[p]))' =
                   FileContent(file_path(main_cli[p]))]_vars

=============================================================================
